---- MODULE Spec2Model ----
(***************************************************************************)
(* Model of backend/app.py: the Athena query proxy run_query, the six      *)
(* query handlers that call it, and the two handlers that mutate the       *)
(* process-wide acknowledged_alerts set.                                   *)
(*                                                                         *)
(* Three specifications share the variables:                               *)
(*   Spec        one HTTP query request: handler -> run_query -> response  *)
(*   SpecAlerts  sequences of /acknowledge_alert and /reset_alerts         *)
(*   SpecCoerce  the per-cell coercion of run_query on drawn inputs        *)
(* The query handlers never read acknowledged_alerts and the alert         *)
(* handlers never call run_query, so the two request families are checked  *)
(* separately.                                                             *)
(***************************************************************************)
EXTENDS Integers, Sequences, FiniteSets

VARIABLES
    pc,                  \* position of the request being handled
    handler,             \* which route is being served
    max_wait_seconds,    \* run_query's parameter
    waited,              \* run_query's local counter
    status,              \* run_query's local `status` ("UNBOUND" before its first assignment)
    status_reason,       \* StateChangeReason of the last status_response
    rows,                \* run_query's local `rows` (results['ResultSet']['Rows'])
    result,              \* value returned by run_query
    response,            \* HTTP response of the request
    backend,             \* state of the query execution inside Athena
    backend_reason,      \* StateChangeReason held by Athena
    calls,               \* history: backend calls and sleeps made by run_query, in order
    acknowledged_alerts, \* the module-level set
    reqLog,              \* history: alert requests and their response status
    cHeader, cCell, cField, cpc   \* SpecCoerce: input header, input cell, output field, position

vars == <<pc, handler, max_wait_seconds, waited, status, status_reason, rows, result,
          response, backend, backend_reason, calls, acknowledged_alerts, reqLog,
          cHeader, cCell, cField, cpc>>

queryVars == <<pc, handler, max_wait_seconds, waited, status, status_reason, rows, result,
               backend, backend_reason, calls>>
alertVars == <<acknowledged_alerts, reqLog>>
coerceVars == <<cHeader, cCell, cField, cpc>>

----------------------------------------------------------------------------
(* Bounds *)

MaxWait == 3        \* largest max_wait_seconds passed to run_query
MaxDataRows == 2    \* most rows after the header row in a fetched result set
MaxTextLen == 4     \* longest cell text drawn for the coercion
MaxReqs == 3        \* most alert requests in one behaviour

----------------------------------------------------------------------------
(* Python values *)

None == [t |-> "none"]
Str(v) == [t |-> "str", v |-> v]
\* a float with the value m / 10^s, m an integer, without trailing decimal zeros
Float(m, s) == [t |-> "float", m |-> m, s |-> s]

PyList(items) == [type |-> "list", items |-> items]
ErrorDict(msg) == [type |-> "dict", error |-> msg]
NoResult == [type |-> "unset"]

----------------------------------------------------------------------------
(* Cell coercion, run_query lines 61-76 *)

Digits == {"0", "1", "2", "5"}
Chars == Digits \cup {".", "-", "x"}

DigitVal(c) == CASE c = "0" -> 0 [] c = "1" -> 1 [] c = "2" -> 2 [] c = "5" -> 5

RECURSIVE CountOf(_, _)
CountOf(c, t) == IF t = <<>> THEN 0
                 ELSE (IF t[1] = c THEN 1 ELSE 0) + CountOf(c, Tail(t))

\* the text without its sign
Unsigned(t) == IF t # <<>> /\ t[1] = "-" THEN Tail(t) ELSE t

\* float(text) succeeds: an optional sign, digits with at most one point,
\* at least one digit ("1.", ".5" and "-.5" parse; "", ".", "-" and "1-" do not)
ParsesAsFloat(t) ==
    LET u == Unsigned(t) IN
    /\ \A i \in 1..Len(u) : u[i] \in Digits \cup {"."}
    /\ CountOf(".", u) <= 1
    /\ \E i \in 1..Len(u) : u[i] \in Digits

\* the integer spelled by the digits of u, the point skipped
RECURSIVE Mantissa(_, _)
Mantissa(u, acc) == IF u = <<>> THEN acc
                    ELSE IF u[1] = "." THEN Mantissa(Tail(u), acc)
                    ELSE Mantissa(Tail(u), 10 * acc + DigitVal(u[1]))

\* number of digits after the point
RECURSIVE Scale(_)
Scale(u) == IF u = <<>> THEN 0
            ELSE IF u[1] = "." THEN Len(u) - 1
            ELSE Scale(Tail(u))

RECURSIVE Normalize(_, _)
Normalize(m, s) == IF s > 0 /\ m % 10 = 0 THEN Normalize(m \div 10, s - 1)
                   ELSE Float(m, s)

\* float(text) for a text that parses
FloatOf(t) ==
    LET u == Unsigned(t)
        m == Mantissa(u, 0)
    IN Normalize(IF t[1] = "-" THEN 0 - m ELSE m, Scale(u))

\* float(value) raises ValueError or TypeError
FloatFails(value) == value.t # "str" \/ ~ParsesAsFloat(value.v)

IdentifierColumns == {"device", "device_id", "alert_key"}

IsIdentifier(header) == header \in IdentifierColumns

coerce_cell(header, value) ==
    IF ~FloatFails(value) THEN FloatOf(value.v)
    ELSE IF IsIdentifier(header) THEN value
    ELSE Float(0, 0)

----------------------------------------------------------------------------
(* Result parsing, run_query lines 51-81 *)

\* header rows the backend answers with (column names of the canned queries, shortened)
HeaderRows == {<<"device">>, <<"device", "temp">>, <<"temp", "smoke">>}

\* cells of data rows: a NULL cell (no VarCharValue), a numeric text, a non-numeric text
SampleCells == {None, Str(<<"1", "2", ".", "5">>), Str(<<"x">>)}

\* results['ResultSet']['Rows']: nothing at all, or a header row and up to
\* MaxDataRows data rows; Athena gives every row one cell per column
ResultSets ==
    {<<>>} \cup
    UNION {{<<h>> \o d : d \in [1..n -> [1..Len(h) -> SampleCells]]} :
              <<h, n>> \in HeaderRows \X (0..MaxDataRows)}

\* the index of the last cell of the row written under header h
LastCellUnder(headers, row, h) ==
    CHOOSE i \in 1..Len(row) : headers[i] = h /\ \A j \in (i+1)..Len(row) : headers[j] # h

\* item, lines 60-76: one field per cell, a later cell overwriting an earlier one of the same header
row_item(headers, row) ==
    [h \in {headers[i] : i \in 1..Len(row)} |->
        coerce_cell(h, row[LastCellUnder(headers, row, h)])]

parse_rows_KeepsHeader(rs) ==
    IF Len(rs) <= 1 THEN PyList(<<>>)
    ELSE PyList([i \in 1..Len(rs) |-> row_item(rs[1], rs[IF i = 1 THEN 2 ELSE i])])

\* lines 53-81
parse_rows(rs) ==
    IF Len(rs) <= 1 THEN PyList(<<>>)
    ELSE PyList([i \in 1..(Len(rs) - 1) |-> row_item(rs[1], rs[i + 1])])

----------------------------------------------------------------------------
(* run_query, lines 20-85 *)

Pending == {"QUEUED", "RUNNING"}
FailedStates == {"FAILED", "CANCELLED"}
States == Pending \cup {"SUCCEEDED"} \cup FailedStates

\* StateChangeReason: absent from the Status mapping, or a text
Reasons == {"ABSENT", "SYNTAX_ERROR: line 1"}

\* messages of the exceptions the boto3 client raises
ExcMessages == {"ThrottlingException", "EndpointConnectionError"}

Handlers == {"latest", "avg_metrics", "max_metrics", "alert_counts", "humidity_co", "temp_dist"}

Call(op, out) == [op |-> op, out |-> out, msg |-> ""]
Raise(op, e) == [op |-> op, out |-> "raise", msg |-> e]

LoopGuard_Inclusive(w, m) == w <= m

\* while waited < max_wait_seconds, line 31
LoopGuard(w, m) == w < m

IsTerminalFailure_OnlyFailed(s) == s = "FAILED"

\* status in ['FAILED', 'CANCELLED'], line 37
IsTerminalFailure(s) == s \in FailedStates

\* .get('StateChangeReason', 'Unknown'), line 38
ReasonOrUnknown(r) == IF r = "ABSENT" THEN "Unknown" ELSE r

\* f"Query {status}: {reason}", line 40
FailureMessage(s, r) == <<"Query ", s, ": ", ReasonOrUnknown(r)>>

TimeoutMessage == <<"Query timeout">>

\* str(e) of the UnboundLocalError raised by line 45 when the loop body never ran
UnboundStatusMessage == <<"cannot access local variable 'status' where it is not associated with a value">>

ExceptionValue_Timeout(msg) == ErrorDict(TimeoutMessage)

\* except Exception as e: return {"error": str(e)}, lines 83-85
ExceptionValue(msg) == ErrorDict(<<msg>>)

\* a handler calls run_query(query). The handlers leave max_wait_seconds at its
\* default of 30 (line 20); the budget is run_query's parameter and is drawn
\* here from 0..MaxWait.
HandleRequest ==
    /\ pc = "idle"
    /\ \E h \in Handlers, n \in 0..MaxWait :
        /\ handler' = h
        /\ max_wait_seconds' = n
    /\ pc' = "submit"
    /\ UNCHANGED <<waited, status, status_reason, rows, result, response, backend,
                   backend_reason, calls>>
    /\ UNCHANGED <<alertVars, coerceVars>>

\* lines 23-30, start_query_execution returns
SubmitOk ==
    /\ pc = "submit"
    /\ backend' = "QUEUED"
    /\ waited' = 0
    /\ calls' = Append(calls, Call("start", "ok"))
    /\ pc' = "loop"
    /\ UNCHANGED <<handler, max_wait_seconds, status, status_reason, rows, result, response,
                   backend_reason>>
    /\ UNCHANGED <<alertVars, coerceVars>>

\* lines 23-27 and 83-85, start_query_execution raises
SubmitRaises ==
    /\ pc = "submit"
    /\ \E e \in ExcMessages :
        /\ result' = ExceptionValue(e)
        /\ calls' = Append(calls, Raise("start", e))
    /\ pc' = "respond"
    /\ UNCHANGED <<handler, max_wait_seconds, waited, status, status_reason, rows, response,
                   backend, backend_reason>>
    /\ UNCHANGED <<alertVars, coerceVars>>

\* lines 31-40, one pass of the loop up to the sleep: get_query_execution returns
Poll ==
    /\ pc = "loop"
    /\ LoopGuard(waited, max_wait_seconds)
    /\ status' = backend
    /\ status_reason' = backend_reason
    /\ calls' = Append(calls, Call("poll", backend))
    /\ IF backend = "SUCCEEDED"
         THEN pc' = "check" /\ UNCHANGED result
       ELSE IF IsTerminalFailure(backend)
         THEN pc' = "respond" /\ result' = ErrorDict(FailureMessage(backend, backend_reason))
       ELSE pc' = "sleep" /\ UNCHANGED result
    /\ UNCHANGED <<handler, max_wait_seconds, waited, rows, response, backend, backend_reason>>
    /\ UNCHANGED <<alertVars, coerceVars>>

\* lines 32 and 83-85, get_query_execution raises
PollRaises ==
    /\ pc = "loop"
    /\ LoopGuard(waited, max_wait_seconds)
    /\ \E e \in ExcMessages :
        /\ result' = ExceptionValue(e)
        /\ calls' = Append(calls, Raise("poll", e))
    /\ pc' = "respond"
    /\ UNCHANGED <<handler, max_wait_seconds, waited, status, status_reason, rows, response,
                   backend, backend_reason>>
    /\ UNCHANGED <<alertVars, coerceVars>>

\* line 31, the loop condition is false
LoopExit ==
    /\ pc = "loop"
    /\ ~LoopGuard(waited, max_wait_seconds)
    /\ pc' = "check"
    /\ UNCHANGED <<handler, max_wait_seconds, waited, status, status_reason, rows, result,
                   response, backend, backend_reason, calls>>
    /\ UNCHANGED <<alertVars, coerceVars>>

\* lines 42-43
Sleep ==
    /\ pc = "sleep"
    /\ waited' = waited + 1
    /\ calls' = Append(calls, Call("sleep", "ok"))
    /\ pc' = "loop"
    /\ UNCHANGED <<handler, max_wait_seconds, status, status_reason, rows, result, response,
                   backend, backend_reason>>
    /\ UNCHANGED <<alertVars, coerceVars>>

\* lines 45-47; reading the unassigned local raises UnboundLocalError, caught at line 83
TimeoutCheck ==
    /\ pc = "check"
    /\ IF status = "UNBOUND"
         THEN pc' = "respond" /\ result' = ErrorDict(UnboundStatusMessage)
       ELSE IF status # "SUCCEEDED"
         THEN pc' = "respond" /\ result' = ErrorDict(TimeoutMessage)
       ELSE pc' = "fetch" /\ UNCHANGED result
    /\ UNCHANGED <<handler, max_wait_seconds, waited, status, status_reason, rows, response,
                   backend, backend_reason, calls>>
    /\ UNCHANGED <<alertVars, coerceVars>>

\* lines 50-81, get_query_results returns and the rows are parsed
FetchOk ==
    /\ pc = "fetch"
    /\ \E rs \in ResultSets :
        /\ rows' = rs
        /\ result' = parse_rows(rs)
    /\ calls' = Append(calls, Call("fetch", "ok"))
    /\ pc' = "respond"
    /\ UNCHANGED <<handler, max_wait_seconds, waited, status, status_reason, response,
                   backend, backend_reason>>
    /\ UNCHANGED <<alertVars, coerceVars>>

\* lines 50 and 83-85, get_query_results raises
FetchRaises ==
    /\ pc = "fetch"
    /\ \E e \in ExcMessages :
        /\ result' = ExceptionValue(e)
        /\ calls' = Append(calls, Raise("fetch", e))
    /\ pc' = "respond"
    /\ UNCHANGED <<handler, max_wait_seconds, waited, status, status_reason, rows, response,
                   backend, backend_reason>>
    /\ UNCHANGED <<alertVars, coerceVars>>

\* the query execution moves on inside Athena while run_query is polling or sleeping
BackendAdvance ==
    /\ pc \in {"loop", "sleep", "check"}
    /\ backend \in Pending
    /\ \/ backend = "QUEUED" /\ backend' = "RUNNING" /\ UNCHANGED backend_reason
       \/ backend' = "SUCCEEDED" /\ UNCHANGED backend_reason
       \/ backend' \in FailedStates /\ backend_reason' \in Reasons
    /\ UNCHANGED <<pc, handler, max_wait_seconds, waited, status, status_reason, rows, result,
                   response, calls>>
    /\ UNCHANGED <<alertVars, coerceVars>>

----------------------------------------------------------------------------
(* Query handlers, lines 89-141 and 176-267 *)

\* isinstance(data, dict) and "error" in data
IsFailure(data) == data.type = "dict" /\ "error" \in DOMAIN data

\* truth value of run_query's return value: a non-empty list, or a non-empty dict
Truthy(data) == IF data.type = "list" THEN data.items # <<>> ELSE TRUE

\* simulated_alert_row, lines 110-120 and 127-137; ts is int(time.time())
simulated_alert_row ==
    [device    |-> Str(<<"b8:27:eb:bf:9d:51">>),
     device_id |-> Str(<<"b8:27:eb:bf:9d:51">>),
     co        |-> Float(1305, 4),
     smoke     |-> Float(25, 3),
     temp      |-> Float(28, 0),
     humidity  |-> Float(40, 0),
     lpg       |-> Float(5, 3),
     ts        |-> [t |-> "int", v |-> "now"],
     alert_key |-> Str(<<"simulated_tent1_danger_130">>)]

JsonResponse(code, body) == [status |-> code, body |-> body]
NoResponse == [status |-> 0]

latest_response_NoFallback(data) ==
    IF Truthy(data) /\ ~IsFailure(data)
      THEN JsonResponse(200, Append(data.items, simulated_alert_row))
      ELSE JsonResponse(200, <<>>)

\* latest, lines 106-141
latest_response(data) ==
    IF Truthy(data) /\ ~IsFailure(data)
      THEN JsonResponse(200, Append(data.items, simulated_alert_row))
      ELSE JsonResponse(200, <<simulated_alert_row>>)

handler_response_ForwardsError(data) ==
    IF ~Truthy(data)
      THEN JsonResponse(200, <<>>)
      ELSE JsonResponse(200, IF data.type = "list" THEN data.items ELSE <<data>>)

\* avg_metrics, max_metrics, alert_counts, humidity_co, temp_dist:
\* lines 189-193, 209-213, 227-231, 245-249, 263-267
handler_response(data) ==
    IF ~Truthy(data) \/ IsFailure(data)
      THEN JsonResponse(200, <<>>)
      ELSE JsonResponse(200, data.items)

\* the handler turns run_query's return value into the HTTP response
Respond ==
    /\ pc = "respond"
    /\ response' = IF handler = "latest" THEN latest_response(result)
                   ELSE handler_response(result)
    /\ pc' = "done"
    /\ UNCHANGED <<handler, max_wait_seconds, waited, status, status_reason, rows, result,
                   backend, backend_reason, calls>>
    /\ UNCHANGED <<alertVars, coerceVars>>

----------------------------------------------------------------------------
(* Alert acknowledgement handlers, lines 18 and 272-290 *)

AlertKeys == {"x", "y"}

\* request bodies: no body at all, the JSON value null, a JSON object without the
\* field, and a JSON object whose alert_key is null, "", a key, or a non-empty list
KeyValues == {None, Str(""), [t |-> "list"]} \cup {Str(k) : k \in AlertKeys}

Bodies ==
    {[kind |-> "empty"], [kind |-> "null"], [kind |-> "object", fields |-> {}]}
    \cup {[kind |-> "object", fields |-> {"alert_key"}, alert_key |-> v] : v \in KeyValues}

\* request.json, line 276: the parsed body. For a body that is no JSON document
\* Flask either aborts the request (400 Bad Request, 415 Unsupported Media Type)
\* or yields None, depending on its version and the Content-Type header.
RequestJsonOutcomes(b) ==
    IF b.kind = "empty" THEN {"abort400", "abort415", "none"}
    ELSE IF b.kind = "null" THEN {"none"}
    ELSE {"object"}

\* .get('alert_key') on the parsed object, line 276
GetAlertKey(b) == IF "alert_key" \in b.fields THEN b.alert_key ELSE None

\* if alert_key:, line 277
IsTruthyKey(v) == (v.t = "str" /\ v.v # "") \/ v.t = "list"

\* acknowledged_alerts.add(alert_key) raises TypeError for an unhashable key
Hashable(v) == v.t # "list"

\* the page Flask sends for an aborted request or an unhandled exception
ErrorPage(code) == [status |-> code, body |-> [html |-> TRUE]]

Event(op, body, code) == [op |-> op, body |-> body, status |-> code]

\* acknowledged_alerts.add(alert_key), line 278
AddKey(set, k) == set \cup {k}

ClearAll_Keeps(set) == set

\* acknowledged_alerts.clear(), line 288
ClearAll(set) == {}

\* acknowledge_alert, lines 272-281
AcknowledgeAlert ==
    /\ Len(reqLog) < MaxReqs
    /\ \E b \in Bodies : \E json \in RequestJsonOutcomes(b) :
        LET alert_key == GetAlertKey(b) IN
        IF json = "abort400" \/ json = "abort415"
          THEN /\ response' = ErrorPage(IF json = "abort400" THEN 400 ELSE 415)
               /\ reqLog' = Append(reqLog, Event("ack", b, response'.status))
               /\ UNCHANGED acknowledged_alerts
        ELSE IF json = "none"
          \* None.get raises AttributeError
          THEN /\ response' = ErrorPage(500)
               /\ reqLog' = Append(reqLog, Event("ack", b, 500))
               /\ UNCHANGED acknowledged_alerts
        ELSE IF IsTruthyKey(alert_key)
          THEN IF Hashable(alert_key)
                 THEN /\ acknowledged_alerts' = AddKey(acknowledged_alerts, alert_key.v)
                      /\ response' = JsonResponse(200, [success |-> TRUE,
                                                        acknowledged |-> alert_key.v])
                      /\ reqLog' = Append(reqLog, Event("ack", b, 200))
                 ELSE /\ response' = ErrorPage(500)
                      /\ reqLog' = Append(reqLog, Event("ack", b, 500))
                      /\ UNCHANGED acknowledged_alerts
        ELSE /\ response' = JsonResponse(400, [success |-> FALSE])
             /\ reqLog' = Append(reqLog, Event("ack", b, 400))
             /\ UNCHANGED acknowledged_alerts
    /\ UNCHANGED <<queryVars, coerceVars>>

\* reset_alerts, lines 284-290
ResetAlerts ==
    /\ Len(reqLog) < MaxReqs
    /\ acknowledged_alerts' = ClearAll(acknowledged_alerts)
    /\ response' = JsonResponse(200, [success |-> TRUE, message |-> "All alerts reset"])
    /\ reqLog' = Append(reqLog, Event("reset", [kind |-> "empty"], 200))
    /\ UNCHANGED <<queryVars, coerceVars>>

----------------------------------------------------------------------------
(* The coercion applied to drawn inputs *)

CoerceHeaders == IdentifierColumns \cup {"temp", "smoke"}

Texts == UNION {[1..n -> Chars] : n \in 0..MaxTextLen}

CoerceCells == {None} \cup {Str(t) : t \in Texts}

Unset == [t |-> "unset"]

\* lines 62-76 for one cell
CoerceCell ==
    /\ cpc = "ready"
    /\ cField' = coerce_cell(cHeader, cCell)
    /\ cpc' = "done"
    /\ UNCHANGED <<cHeader, cCell, response>>
    /\ UNCHANGED <<queryVars, alertVars>>

----------------------------------------------------------------------------
(* Specifications *)

InitQuery ==
    /\ pc = "idle"
    /\ handler = "none"
    /\ max_wait_seconds = 0
    /\ waited = 0
    /\ status = "UNBOUND"
    /\ status_reason = "ABSENT"
    /\ rows = <<>>
    /\ result = NoResult
    /\ response = NoResponse
    /\ backend = "NONE"
    /\ backend_reason = "ABSENT"
    /\ calls = <<>>

InitAlerts ==
    /\ acknowledged_alerts = {}
    /\ reqLog = <<>>

InitCoerceIdle ==
    /\ cHeader = "device"
    /\ cCell = None
    /\ cField = Unset
    /\ cpc = "idle"

Init == InitQuery /\ InitAlerts /\ InitCoerceIdle

Next ==
    \/ HandleRequest
    \/ SubmitOk
    \/ SubmitRaises
    \/ Poll
    \/ PollRaises
    \/ LoopExit
    \/ Sleep
    \/ TimeoutCheck
    \/ FetchOk
    \/ FetchRaises
    \/ BackendAdvance
    \/ Respond

Spec == Init /\ [][Next]_vars

NextAlerts == AcknowledgeAlert \/ ResetAlerts

SpecAlerts == Init /\ [][NextAlerts]_vars

InitCoerce ==
    /\ InitQuery
    /\ InitAlerts
    /\ cHeader \in CoerceHeaders
    /\ cCell \in CoerceCells
    /\ cField = Unset
    /\ cpc = "ready"

NextCoerce == CoerceCell

SpecCoerce == InitCoerce /\ [][NextCoerce]_vars

----------------------------------------------------------------------------
(* Properties *)

Returned == pc \in {"respond", "done"}

CallIdx == 1..Len(calls)
NumCalls(op) == Cardinality({i \in CallIdx : calls[i].op = op})
LastCall == calls[Len(calls)]
TimedOut == Returned /\ result = ErrorDict(TimeoutMessage)
ObservedSucceeded == \E i \in CallIdx : calls[i].op = "poll" /\ calls[i].out = "SUCCEEDED"

\* C1: for every budget N >= 0, when no backend call raises and every poll
\* returns a non-terminal state, run_query returns {"error": "Query timeout"}
\* after exactly the calls start, (poll, sleep) x N, and no get_query_results.
C1_TimeoutAfterExactlyNPolls ==
    (/\ Returned
     /\ \A i \in CallIdx : calls[i].out \in Pending \cup {"ok"}
     /\ NumCalls("fetch") = 0)
    => /\ result = ErrorDict(TimeoutMessage)
       /\ Len(calls) = 1 + 2 * max_wait_seconds
       /\ calls[1].op = "start"
       /\ \A k \in 1..max_wait_seconds :
            calls[2 * k].op = "poll" /\ calls[2 * k + 1].op = "sleep"

\* C2: a poll that observes FAILED or CANCELLED is the last thing run_query
\* does: it has returned the failure value naming the status and the backend's
\* StateChangeReason ("Unknown" when absent), after fewer than max_wait_seconds
\* sleeps, with one submission and no fetch.
C2_FailedOrCancelledEndsAtOnce ==
    \A i \in CallIdx :
        (calls[i].op = "poll" /\ calls[i].out \in FailedStates)
        => /\ i = Len(calls)
           /\ Returned
           /\ result.type = "dict"
           /\ result.error = <<"Query ", calls[i].out, ": ",
                               IF backend_reason = "ABSENT" THEN "Unknown"
                               ELSE backend_reason>>
           /\ NumCalls("sleep") < max_wait_seconds
           /\ NumCalls("start") = 1
           /\ NumCalls("fetch") = 0

C2_Witness ==
    /\ pc = "done"
    /\ calls # <<>>
    /\ LastCall.op = "poll"
    /\ LastCall.out = "CANCELLED"
    /\ backend_reason = "ABSENT"
    /\ NumCalls("sleep") >= 1

\* C3: a backend call that raises is the last call run_query makes, and
\* run_query has returned {"error": <the exception's message>}, which is a
\* failure value and not a list.
C3_ExceptionBecomesFailureValue ==
    \A i \in CallIdx :
        calls[i].out = "raise"
        => /\ i = Len(calls)
           /\ Returned
           /\ result.type = "dict"
           /\ result.type # "list"
           /\ DOMAIN result = {"type", "error"}
           /\ result.error = <<calls[i].msg>>

C3_Witness ==
    /\ pc = "done"
    /\ calls # <<>>
    /\ LastCall.op = "fetch"
    /\ LastCall.out = "raise"
    /\ NumCalls("poll") >= 2

ResultIsFailure == result.type = "dict"

\* C4 as stated: every one of the six handlers answers 200 with an empty array
\* on a failure value and otherwise forwards run_query's rows.
C4_AllSixEmptyOnFailure ==
    pc = "done"
    => /\ response.status = 200
       /\ ResultIsFailure => response.body = <<>>
       /\ ~ResultIsFailure => response.body = result.items

\* C4 amended: the five handlers other than /latest answer 200 with an empty
\* array on a failure value and otherwise forward run_query's rows; /latest
\* answers 200 with exactly the simulated record on a failure value and
\* otherwise with run_query's rows followed by that record.
C4_FiveEmptyOnFailure ==
    pc = "done"
    => /\ response.status = 200
       /\ handler # "latest"
            => /\ ResultIsFailure => response.body = <<>>
               /\ ~ResultIsFailure => response.body = result.items
       /\ handler = "latest"
            => /\ ResultIsFailure => response.body = <<simulated_alert_row>>
               /\ ~ResultIsFailure => response.body = result.items \o <<simulated_alert_row>>

C4_Witness ==
    /\ pc = "done"
    /\ handler = "avg_metrics"
    /\ result = ErrorDict(TimeoutMessage)
    /\ response.body = <<>>

IsDangerRecord(r) ==
    /\ {"device", "co"} \subseteq DOMAIN r
    /\ r.device = Str(<<"b8:27:eb:bf:9d:51">>)
    /\ r.co = Float(1305, 4)

\* C5: the response of /latest contains the danger record in all three cases:
\* after the real rows, kept in order, when run_query returned rows; alone when
\* run_query returned an empty list or a failure value.
C5_LatestAlwaysHasDangerRecord ==
    (pc = "done" /\ handler = "latest")
    => LET body == response.body IN
       /\ \E i \in 1..Len(body) : IsDangerRecord(body[i])
       /\ (result.type = "list" /\ result.items # <<>>)
            => /\ Len(body) = Len(result.items) + 1
               /\ \A i \in 1..Len(result.items) : body[i] = result.items[i]
               /\ IsDangerRecord(body[Len(body)])
       /\ (result.type = "list" /\ result.items = <<>>)
            => Len(body) = 1 /\ IsDangerRecord(body[1])
       /\ result.type = "dict"
            => Len(body) = 1 /\ IsDangerRecord(body[1])

C5_Witness ==
    /\ pc = "done"
    /\ handler = "latest"
    /\ result.type = "list"
    /\ Len(result.items) = 2
    /\ Len(response.body) = 3

\* C6: the field stored for a cell is a float or a string: the parsed float
\* when the cell text parses; else the original string under "device",
\* "device_id" or "alert_key"; else 0.0.
C6_FieldIsFloatOrString ==
    cpc = "done"
    => /\ cField.t \in {"float", "str"}
       /\ (cCell.t = "str" /\ ParsesAsFloat(cCell.v)) => cField = FloatOf(cCell.v)
       /\ (~(cCell.t = "str" /\ ParsesAsFloat(cCell.v))
           /\ cHeader \in {"device", "device_id", "alert_key"}) => cField = cCell
       /\ (~(cCell.t = "str" /\ ParsesAsFloat(cCell.v))
           /\ cHeader \notin {"device", "device_id", "alert_key"}) => cField = Float(0, 0)

DataRowCount == IF Len(rows) = 0 THEN 0 ELSE Len(rows) - 1

OneRowPerBackendRow ==
    /\ result.type = "list"
    /\ Len(result.items) = DataRowCount
    /\ \A i \in 1..DataRowCount :
         /\ DOMAIN result.items[i] = {rows[1][j] : j \in 1..Len(rows[i + 1])}
         /\ \A j \in 1..Len(rows[i + 1]) :
              result.items[i][rows[1][j]] = coerce_cell(rows[1][j], rows[i + 1][j])

\* C7 as stated: once a poll has observed SUCCEEDED, run_query returns a list
\* with one Result Row per backend row after the header row, in order.
C7_SucceededAlwaysGivesRows ==
    (Returned /\ ObservedSucceeded) => OneRowPerBackendRow

\* C7 amended: once a poll has observed SUCCEEDED and get_query_results has
\* returned a result set without raising, run_query returns a list with one
\* Result Row per backend row after the header row, in order; a header-only
\* result set gives the empty list.
C7_FetchedRowsGiveRows ==
    (/\ Returned
     /\ ObservedSucceeded
     /\ LastCall.op = "fetch" /\ LastCall.out = "ok")
    => OneRowPerBackendRow

C7_Witness ==
    /\ pc = "done"
    /\ ObservedSucceeded
    /\ Len(rows) = 3
    /\ rows[2] # rows[3]
    /\ result.type = "list"
    /\ Len(result.items) = 2

\* the body carries no alert_key
CarriesNoKey(b) ==
    \/ b.kind \in {"empty", "null"}
    \/ b.kind = "object" /\ "alert_key" \notin b.fields
    \/ b.kind = "object" /\ "alert_key" \in b.fields /\ b.alert_key \in {None, Str("")}

\* C8: an /acknowledge_alert request whose body carries no alert_key is
\* answered with status 400 and success false, and leaves acknowledged_alerts
\* as it was.
C8_NoKeyGets400 ==
    [][(/\ Len(reqLog') = Len(reqLog) + 1
        /\ reqLog'[Len(reqLog')].op = "ack"
        /\ CarriesNoKey(reqLog'[Len(reqLog')].body))
       => /\ response'.status = 400
          /\ "success" \in DOMAIN response'.body
          /\ response'.body.success = FALSE
          /\ acknowledged_alerts' = acknowledged_alerts]_vars

LogIdx == 1..Len(reqLog)

\* keys of the requests answered 200 by /acknowledge_alert with no later reset
AckedSinceLastReset ==
    {reqLog[i].body.alert_key.v :
        i \in {k \in LogIdx : /\ reqLog[k].op = "ack"
                              /\ reqLog[k].status = 200
                              /\ \A j \in (k + 1)..Len(reqLog) : reqLog[j].op # "reset"}}

\* C9: acknowledged_alerts is exactly the set of keys acknowledged with
\* success since the most recent reset, and a reset, also a repeated one,
\* answers success and leaves the set empty.
C9_SetIsAckedSinceLastReset ==
    /\ acknowledged_alerts = AckedSinceLastReset
    /\ (reqLog # <<>> /\ reqLog[Len(reqLog)].op = "reset")
         => /\ acknowledged_alerts = {}
            /\ response.status = 200
            /\ response.body.success = TRUE

C9_Witness ==
    /\ Len(reqLog) = 3
    /\ reqLog[1].op = "ack" /\ reqLog[1].status = 200
    /\ reqLog[2].op = "reset"
    /\ reqLog[3].op = "reset"
    /\ acknowledged_alerts = {}

\* C10 as stated: run_query returns the timeout failure only when the backend
\* is still pending at the moment the budget is exhausted.
C10_TimeoutOnlyIfStillPending ==
    [][(pc = "check" /\ pc' = "respond" /\ result' = ErrorDict(TimeoutMessage))
       => backend \in Pending]_vars

\* C10 amended: run_query returns the timeout failure only after max_wait_seconds
\* >= 1 polls that each observed a non-terminal status, each followed by a sleep;
\* a poll made while the backend is SUCCEEDED is the last poll and leads to
\* get_query_results, never to the timeout; the status is not read again after
\* the sleep that follows the last poll.
C10_TimeoutIffEveryPollPending ==
    /\ TimedOut
         => /\ max_wait_seconds >= 1
            /\ NumCalls("poll") = max_wait_seconds
            /\ NumCalls("sleep") = max_wait_seconds
            /\ \A i \in CallIdx : calls[i].op = "poll" => calls[i].out \in Pending
            /\ LastCall.op = "sleep"
    /\ \A i \in CallIdx :
         (calls[i].op = "poll" /\ calls[i].out = "SUCCEEDED")
         => /\ ~TimedOut
            /\ NumCalls("poll") = i \div 2
            /\ pc \in {"check", "fetch"} \/ NumCalls("fetch") = 1

C10_Witness ==
    /\ pc = "done"
    /\ result = ErrorDict(TimeoutMessage)
    /\ backend = "SUCCEEDED"
    /\ max_wait_seconds = 2

====
